---- MODULE Spec2Model ----
(***************************************************************************)
(* Model of the transaction broadcast pipeline of lino-go:                 *)
(* Broadcast.broadcastTransaction races a background goroutine running     *)
(* Transport.SignBuildBroadcast against ctx.Done(), then classifies the    *)
(* node's response.                                                        *)
(***************************************************************************)
EXTENDS Integers, Sequences, FiniteSets, TLC

VARIABLES
    checkTxOnly,  \* the call's mode argument: TRUE = confirm-only, FALSE = full-commit
    ctxErr,       \* ctx.Err(): "nil" until ctx.Done() is closed, then the cause
    callerPc,     \* where the calling goroutine is in broadcastTransaction
    bgPc,         \* where the background goroutine is
    res,          \* the captured variable res (interface{})
    err,          \* the captured variable err
    ret,          \* what broadcastTransaction returned: (response, error)
    returns,      \* how many times the call has returned
    bgAtReturn,   \* where the background goroutine was when the call returned
    client,       \* Transport.client: Nil when no node URL was configured
    sbbCalls,     \* how many times the call has run SignBuildBroadcast
    submitted,    \* how many transactions the call has handed to the node
    \* concurrent calls of Transport.SignBuildBroadcast
    sbb,          \* per call: its arguments, where it is, what it computed
    nodeTxs,      \* the transactions the node has received, in order
    \* one operation of the transport or of the query layer
    qOp,          \* the operation called
    qPc,          \* where it is
    qScan,        \* resKVs: the pairs the range scan returned
    qIdx,         \* the range loop's position in resKVs
    qMap,         \* the map the range loop has built so far
    qRequests,    \* the requests the node has received from it, in order
    qRet,         \* what it returned
    \* calls of CreatePost, CreatePostSync, UpdatePost
    pOp,          \* the operation called
    links,        \* the links argument, a Go map
    build,        \* per call: the keys still to range over, mLinks, the message
    \* the key arguments of the broadcast operations
    privKeyHex,   \* the signer's private key argument of the broadcast call
    kOp,          \* the operation called, one that takes public keys
    kPc,          \* where it is
    kKeys,        \* its public key arguments, in the order it parses them
    kRet          \* what it returned

\* what only the goroutine's SignBuildBroadcast step touches
nodeSide == <<sbbCalls, submitted>>

\* the arguments and the state of an operation that parses public keys
keySide == <<privKeyHex, kOp, kPc, kKeys, kRet>>

\* the state of the operations modelled further down
elsewhere == <<sbb, nodeTxs, qOp, qPc, qScan, qIdx, qMap, qRequests, qRet,
               pOp, links, build, keySide>>

vars == <<checkTxOnly, ctxErr, callerPc, bgPc, res, err, ret, returns, bgAtReturn,
          client, nodeSide, elsewhere>>

\* the parts of the state that an operation not under way leaves at rest
BroadcastIdle ==
    /\ checkTxOnly = FALSE /\ ctxErr = "nil" /\ callerPc = "start" /\ bgPc = "idle"
    /\ res = [nil |-> TRUE] /\ err = "nil"
    /\ ret = [resp |-> [nil |-> TRUE], err |-> [nil |-> TRUE]]
    /\ returns = 0 /\ bgAtReturn = "none" /\ sbbCalls = 0 /\ submitted = 0
    /\ privKeyHex = <<"0", "1">>
TransportIdle == sbb = <<>> /\ nodeTxs = <<>>
QueryIdle ==
    /\ qOp = "none" /\ qPc = "idle" /\ qScan = <<>> /\ qIdx = 0
    /\ qMap = <<>> /\ qRequests = <<>> /\ qRet = <<>>
PostIdle == pOp = "none" /\ links = <<>> /\ build = <<>>
KeyIdle == kOp = "none" /\ kPc = "idle" /\ kKeys = <<>> /\ kRet = <<>>

(* ------------------------------ bounds --------------------------------- *)
\* remote codes are Hi * 256 + Lo with Hi in 0..MaxHi (the higher-order bits)
MaxHi == 1
\* longest transaction hash, in bytes
MaxHashLen == 2
\* largest sequence number a caller passes
MaxSeq == 1
\* most pairs a range scan returns
MaxEntries == 2

(* --------------------------- program constants ------------------------- *)
InvalidSeqErrCode == 154

(* ------------------------------ input sets ----------------------------- *)
LowBytes == {0, 3, InvalidSeqErrCode}
Codes == {hi * 256 + lo : hi \in 0..MaxHi, lo \in LowBytes}
Logs == {"out of gas", "bad sequence"}
ByteSet == {10, 18, 171}
Hashes == UNION {[1..n -> ByteSet] : n \in 0..MaxHashLen}
CtxErrs == {"context canceled", "context deadline exceeded"}

Nil == [nil |-> TRUE]

\* *ctypes.ResultBroadcastTx
ResultBroadcastTx ==
    [shape : {"ResultBroadcastTx"}, Code : Codes, Log : Logs, Hash : Hashes]

\* *ctypes.ResultBroadcastTxCommit
ResultBroadcastTxCommit ==
    [shape : {"ResultBroadcastTxCommit"},
     CheckTx : [Code : Codes, Log : Logs],
     DeliverTx : [Code : Codes, Log : Logs],
     Hash : Hashes]

\* what the 5-argument Transport.SignBuildBroadcast can hand back as
\* (interface{}, error)
SignBuildBroadcastResults ==
    {[res |-> Nil, err |-> "broadcast error"]}
      \cup {[res |-> Nil, err |-> "nil"]}
      \cup {[res |-> r, err |-> "nil"] : r \in ResultBroadcastTx}
      \cup {[res |-> r, err |-> "nil"] : r \in ResultBroadcastTxCommit}

(* --------------------------- pure functions ---------------------------- *)
\* rpcclient.NewHTTP(nodeUrl, "/websocket")
RpcClient == [nodeUrl |-> "localhost:46657"]

\* mutant: the missing client is not noticed
GetNode_NoCheck(c) == [node |-> c, err |-> "nil"]

\* Transport.GetNode
GetNode(c) ==
    IF c = Nil THEN [node |-> Nil, err |-> "Must define node URI"]
    ELSE [node |-> c, err |-> "nil"]

RECURSIVE BitAnd(_, _)
\* Go's & on unsigned integers, bit by bit
BitAnd(a, b) ==
    IF a = 0 \/ b = 0 THEN 0
    ELSE (a % 2) * (b % 2) + 2 * BitAnd(a \div 2, b \div 2)

\* mutant: the code is compared without masking
retrieveCodeFromBlockChainCode_NoMask(bcCode) == bcCode

\* return bcCode & 0xff
retrieveCodeFromBlockChainCode(bcCode) == BitAnd(bcCode, 255)

HexTable ==
    <<"0", "1", "2", "3", "4", "5", "6", "7",
      "8", "9", "a", "b", "c", "d", "e", "f">>

RECURSIVE EncodeToString(_)
\* hex.EncodeToString: two lowercase hex digits per byte
EncodeToString(bytes) ==
    IF bytes = <<>> THEN <<>>
    ELSE <<HexTable[(Head(bytes) \div 16) + 1], HexTable[(Head(bytes) % 16) + 1]>>
           \o EncodeToString(Tail(bytes))

UpperChar(c) ==
    CASE c = "a" -> "A" [] c = "b" -> "B" [] c = "c" -> "C"
      [] c = "d" -> "D" [] c = "e" -> "E" [] c = "f" -> "F"
      [] OTHER -> c

\* mutant: the hash is left as hex.EncodeToString renders it
ToUpper_Identity(s) == s

\* strings.ToUpper
ToUpper(s) == [i \in DOMAIN s |-> UpperChar(s[i])]

\* encoding/hex fromHexChar: the value of a hex digit of either case
FromHexChar(c) ==
    IF \E i \in 1..16 : HexTable[i] = c \/ UpperChar(HexTable[i]) = c
    THEN [ok |-> TRUE,
          v |-> (CHOOSE i \in 1..16 : HexTable[i] = c \/ UpperChar(HexTable[i]) = c) - 1]
    ELSE [ok |-> FALSE, v |-> 0]

InvalidByteError(c) == [text |-> "encoding/hex: invalid byte", byte |-> c]
ErrLength == [text |-> "encoding/hex: odd length hex string"]

RECURSIVE DecodeString(_)
\* hex.DecodeString: pair by pair, the first character that is no hex digit
\* is the error; a string of odd length is an error after its pairs
DecodeString(src) ==
    IF src = <<>> THEN [bytes |-> <<>>, err |-> Nil]
    ELSE IF Len(src) = 1
    THEN [bytes |-> <<>>,
          err |-> IF FromHexChar(src[1]).ok THEN ErrLength ELSE InvalidByteError(src[1])]
    ELSE LET a == FromHexChar(src[1])
             b == FromHexChar(src[2])
             rest == DecodeString(SubSeq(src, 3, Len(src)))
         IN  IF ~a.ok THEN [bytes |-> <<>>, err |-> InvalidByteError(src[1])]
             ELSE IF ~b.ok THEN [bytes |-> <<>>, err |-> InvalidByteError(src[2])]
             ELSE IF rest.err # Nil THEN [bytes |-> <<a.v * 16 + b.v>>, err |-> rest.err]
             ELSE [bytes |-> <<a.v * 16 + b.v>> \o rest.bytes, err |-> Nil]

\* crypto.PubKeyFromBytes, crypto.PrivKeyFromBytes: no bytes are no key
PubKeyFromBytes(bytes) ==
    IF bytes = <<>> THEN [key |-> Nil, err |-> [text |-> "invalid public key bytes"]]
    ELSE [key |-> [pubKey |-> bytes], err |-> Nil]
PrivKeyFromBytes(bytes) ==
    IF bytes = <<>> THEN [key |-> Nil, err |-> [text |-> "invalid private key bytes"]]
    ELSE [key |-> [privKey |-> bytes], err |-> Nil]

\* transport.GetPubKeyFromHex
GetPubKeyFromHex(keyHex) ==
    LET d == DecodeString(keyHex) IN
    IF d.err # Nil THEN [key |-> Nil, err |-> d.err] ELSE PubKeyFromBytes(d.bytes)

\* transport.GetPrivKeyFromHex
GetPrivKeyFromHex(keyHex) ==
    LET d == DecodeString(keyHex) IN
    IF d.err # Nil THEN [key |-> Nil, err |-> d.err] ELSE PrivKeyFromBytes(d.bytes)

\* hex key arguments: a key, a string of odd length, one with a character
\* that is no hex digit, and the empty string
KeyHexes == {<<"0", "1">>, <<"0">>, <<"g", "1">>, <<>>}
PrivKeyHexes == {<<"0", "1">>, <<"0">>, <<"g", "1">>, <<>>}

BroadcastResponse(commitHash) == [CommitHash |-> commitHash]

Return(resp, e) == [resp |-> resp, err |-> e]

\* the classified errors of the errors package, with what the call sites
\* attach to them
Timeoutf(cause) == [kind |-> "Timeout", cause |-> cause]
FailedToBroadcast(msg) == [kind |-> "FailedToBroadcast", msg |-> msg]
BlockChainError(kind, code, log) == [kind |-> kind, code |-> code, log |-> log]

(* ------------------------ result interpretation ------------------------ *)
\* commitHash := hex.EncodeToString(res.Hash); strings.ToUpper(commitHash)
CommitHash(hash) == ToUpper(EncodeToString(hash))

\* mutant: a failed type assertion is not acted upon, and the empty response
\* is returned
InterpretBroadcastTx_IgnoreShape(r, e) ==
    IF r = Nil \/ r.shape # "ResultBroadcastTx"
    THEN Return(BroadcastResponse(<<>>), Nil)
    ELSE LET code == retrieveCodeFromBlockChainCode(r.Code) IN
         IF e = "nil" /\ code = InvalidSeqErrCode
         THEN Return(Nil, BlockChainError("InvalidSequenceNumber", r.Code, r.Log))
         ELSE IF r.Code # 0
         THEN Return(Nil, BlockChainError("CheckTxFail", r.Code, r.Log))
         ELSE Return(BroadcastResponse(CommitHash(r.Hash)), Nil)

\* the checkTxOnly branch of broadcastTransaction
InterpretBroadcastTx(r, e) ==
    IF r = Nil \/ r.shape # "ResultBroadcastTx"
    THEN Return(Nil, FailedToBroadcast("error to parse the broadcast response"))
    ELSE LET code == retrieveCodeFromBlockChainCode(r.Code) IN
         IF e = "nil" /\ code = InvalidSeqErrCode
         THEN Return(Nil, BlockChainError("InvalidSequenceNumber", r.Code, r.Log))
         ELSE IF r.Code # 0
         THEN Return(Nil, BlockChainError("CheckTxFail", r.Code, r.Log))
         ELSE IF r.Code # 0
         THEN Return(Nil, BlockChainError("DeliverTxFail", r.Code, r.Log))
         ELSE Return(BroadcastResponse(CommitHash(r.Hash)), Nil)

\* mutant: the execution code is examined before the pending-pool code
InterpretBroadcastTxCommit_DeliverFirst(r, e) ==
    IF r = Nil \/ r.shape # "ResultBroadcastTxCommit"
    THEN Return(Nil, FailedToBroadcast("error to parse the broadcast response"))
    ELSE LET code == retrieveCodeFromBlockChainCode(r.CheckTx.Code) IN
         IF e = "nil" /\ code = InvalidSeqErrCode
         THEN Return(Nil, BlockChainError("InvalidSequenceNumber",
                                          r.CheckTx.Code, r.CheckTx.Log))
         ELSE IF r.DeliverTx.Code # 0
         THEN Return(Nil, BlockChainError("DeliverTxFail",
                                          r.DeliverTx.Code, r.DeliverTx.Log))
         ELSE IF r.CheckTx.Code # 0
         THEN Return(Nil, BlockChainError("CheckTxFail",
                                          r.CheckTx.Code, r.CheckTx.Log))
         ELSE Return(BroadcastResponse(CommitHash(r.Hash)), Nil)

\* mutant: the stale-sequence test is applied to the execution code as well
InterpretBroadcastTxCommit_MaskDeliver(r, e) ==
    IF r = Nil \/ r.shape # "ResultBroadcastTxCommit"
    THEN Return(Nil, FailedToBroadcast("error to parse the broadcast response"))
    ELSE LET code == retrieveCodeFromBlockChainCode(r.CheckTx.Code)
             dcode == retrieveCodeFromBlockChainCode(r.DeliverTx.Code) IN
         IF e = "nil" /\ code = InvalidSeqErrCode
         THEN Return(Nil, BlockChainError("InvalidSequenceNumber",
                                          r.CheckTx.Code, r.CheckTx.Log))
         ELSE IF r.CheckTx.Code # 0
         THEN Return(Nil, BlockChainError("CheckTxFail",
                                          r.CheckTx.Code, r.CheckTx.Log))
         ELSE IF e = "nil" /\ dcode = InvalidSeqErrCode
         THEN Return(Nil, BlockChainError("InvalidSequenceNumber",
                                          r.DeliverTx.Code, r.DeliverTx.Log))
         ELSE IF r.DeliverTx.Code # 0
         THEN Return(Nil, BlockChainError("DeliverTxFail",
                                          r.DeliverTx.Code, r.DeliverTx.Log))
         ELSE Return(BroadcastResponse(CommitHash(r.Hash)), Nil)

\* mutant: the errors carry the masked code, and the execution rejection the
\* pending-pool log
InterpretBroadcastTxCommit_WrongPart(r, e) ==
    IF r = Nil \/ r.shape # "ResultBroadcastTxCommit"
    THEN Return(Nil, FailedToBroadcast("error to parse the broadcast response"))
    ELSE LET code == retrieveCodeFromBlockChainCode(r.CheckTx.Code) IN
         IF e = "nil" /\ code = InvalidSeqErrCode
         THEN Return(Nil, BlockChainError("InvalidSequenceNumber",
                                          code, r.CheckTx.Log))
         ELSE IF r.CheckTx.Code # 0
         THEN Return(Nil, BlockChainError("CheckTxFail",
                                          r.CheckTx.Code, r.CheckTx.Log))
         ELSE IF r.DeliverTx.Code # 0
         THEN Return(Nil, BlockChainError("DeliverTxFail",
                                          r.DeliverTx.Code, r.CheckTx.Log))
         ELSE Return(BroadcastResponse(CommitHash(r.Hash)), Nil)

\* the full-commit branch of broadcastTransaction
InterpretBroadcastTxCommit(r, e) ==
    IF r = Nil \/ r.shape # "ResultBroadcastTxCommit"
    THEN Return(Nil, FailedToBroadcast("error to parse the broadcast response"))
    ELSE LET code == retrieveCodeFromBlockChainCode(r.CheckTx.Code) IN
         IF e = "nil" /\ code = InvalidSeqErrCode
         THEN Return(Nil, BlockChainError("InvalidSequenceNumber",
                                          r.CheckTx.Code, r.CheckTx.Log))
         ELSE IF r.CheckTx.Code # 0
         THEN Return(Nil, BlockChainError("CheckTxFail",
                                          r.CheckTx.Code, r.CheckTx.Log))
         ELSE IF r.DeliverTx.Code # 0
         THEN Return(Nil, BlockChainError("DeliverTxFail",
                                          r.DeliverTx.Code, r.DeliverTx.Log))
         ELSE Return(BroadcastResponse(CommitHash(r.Hash)), Nil)

\* broadcastTransaction after the select: the err check, then the mode's branch
Interpret(r, e, mode) ==
    IF e # "nil" THEN Return(Nil, FailedToBroadcast(e))
    ELSE IF mode THEN InterpretBroadcastTx(r, e)
    ELSE InterpretBroadcastTxCommit(r, e)

(* ------------------------------- actions ------------------------------- *)
Init ==
    /\ checkTxOnly \in BOOLEAN
    /\ ctxErr = "nil"
    /\ callerPc = "start"
    /\ bgPc = "idle"
    /\ res = Nil
    /\ err = "nil"
    /\ ret = Return(Nil, Nil)
    /\ returns = 0
    /\ bgAtReturn = "none"
    /\ client \in {Nil, RpcClient}
    /\ sbbCalls = 0
    /\ submitted = 0
    /\ privKeyHex \in PrivKeyHexes
    /\ TransportIdle
    /\ QueryIdle
    /\ PostIdle
    /\ KeyIdle

\* the caller's context is cancelled or its deadline passes; it can happen at
\* any point of the call, also before the goroutine is started
CtxDone ==
    /\ ctxErr = "nil"
    /\ callerPc # "returned"
    /\ \E cause \in CtxErrs : ctxErr' = cause
    /\ UNCHANGED <<client, nodeSide, elsewhere, checkTxOnly, callerPc, bgPc, res, err, ret, returns, bgAtReturn>>

\* mutant: a context that is already done is noticed before the goroutine is
\* started
GoFunc_CheckCtxFirst ==
    /\ callerPc = "start"
    /\ IF ctxErr # "nil"
       THEN /\ ret' = Return(Nil, Timeoutf(ctxErr))
            /\ callerPc' = "returned"
            /\ returns' = returns + 1
            /\ bgAtReturn' = bgPc
            /\ bgPc' = bgPc
       ELSE /\ callerPc' = "select"
            /\ bgPc' = "running"
            /\ UNCHANGED <<ret, returns, bgAtReturn>>
    /\ UNCHANGED <<client, nodeSide, elsewhere, checkTxOnly, ctxErr, res, err>>

\* finishChan := make(chan bool); go func() {...}()
GoFunc ==
    /\ callerPc = "start"
    /\ callerPc' = "select"
    /\ bgPc' = "running"
    /\ UNCHANGED <<client, nodeSide, elsewhere, checkTxOnly, ctxErr, res, err, ret, returns, bgAtReturn>>

\* mutant: a failed step is run a second time before its result is handed over
SignBuildBroadcast_Retry ==
    /\ bgPc = "running"
    /\ IF GetNode(client).err # "nil"
       THEN /\ res' = Nil
            /\ err' = GetNode(client).err
            /\ submitted' = submitted
            /\ sbbCalls' = sbbCalls + 2
       ELSE \E out \in SignBuildBroadcastResults :
               /\ res' = out.res
               /\ err' = out.err
               /\ submitted' = submitted + (IF out.err = "nil" THEN 1 ELSE 2)
               /\ sbbCalls' = sbbCalls + (IF out.err = "nil" THEN 1 ELSE 2)
    /\ bgPc' = "sending"
    /\ UNCHANGED <<client, elsewhere, checkTxOnly, ctxErr, callerPc, ret, returns, bgAtReturn>>

\* goroutine: res, err = broadcast.transport.SignBuildBroadcast(...), after
\* which it stands at the send on the unbuffered finishChan.  The transport
\* parses the private key before it signs, asks GetNode for the client before
\* anything goes to the node, and hands the transaction to the node at most
\* once.
SignBuildBroadcast ==
    /\ bgPc = "running"
    /\ sbbCalls' = sbbCalls + 1
    /\ IF GetPrivKeyFromHex(privKeyHex).err # Nil
       THEN /\ res' = Nil
            /\ err' = "failed to get private key from hex"
            /\ submitted' = submitted
       ELSE IF GetNode(client).err # "nil"
       THEN /\ res' = Nil
            /\ err' = GetNode(client).err
            /\ submitted' = submitted
       ELSE \E out \in SignBuildBroadcastResults :
               /\ res' = out.res
               /\ err' = out.err
               /\ \E n \in (IF out.err = "nil" THEN {1} ELSE {0, 1}) :
                     submitted' = submitted + n
    /\ bgPc' = "sending"
    /\ UNCHANGED <<client, elsewhere, checkTxOnly, ctxErr, callerPc, ret, returns, bgAtReturn>>

\* select, case <-finishChan: the rendezvous with the goroutine's send, after
\* which the goroutine's function ends
SelectFinishChan ==
    /\ callerPc = "select"
    /\ bgPc = "sending"
    /\ callerPc' = "interpret"
    /\ bgPc' = "done"
    /\ UNCHANGED <<client, nodeSide, elsewhere, checkTxOnly, ctxErr, res, err, ret, returns, bgAtReturn>>

\* mutant: the cancellation case breaks out of the select instead of returning
SelectCtxDone_Break ==
    /\ callerPc = "select"
    /\ ctxErr # "nil"
    /\ callerPc' = "interpret"
    /\ UNCHANGED <<client, nodeSide, elsewhere, checkTxOnly, ctxErr, bgPc, res, err, ret, returns, bgAtReturn>>

\* mutant: the timeout case can be taken without the context being done (a
\* default case)
SelectCtxDone_Default ==
    /\ callerPc = "select"
    /\ ret' = Return(Nil, Timeoutf(ctxErr))
    /\ callerPc' = "returned"
    /\ returns' = returns + 1
    /\ bgAtReturn' = bgPc
    /\ UNCHANGED <<client, nodeSide, elsewhere, checkTxOnly, ctxErr, bgPc, res, err>>

\* mutant: on cancellation the caller first waits for the goroutine
SelectCtxDone_AwaitTask ==
    /\ callerPc = "select"
    /\ ctxErr # "nil"
    /\ bgPc = "sending"
    /\ ret' = Return(Nil, Timeoutf(ctxErr))
    /\ callerPc' = "returned"
    /\ returns' = returns + 1
    /\ bgPc' = "done"
    /\ bgAtReturn' = "sending"
    /\ UNCHANGED <<client, nodeSide, elsewhere, checkTxOnly, ctxErr, res, err>>

\* select, case <-ctx.Done(): return nil, Timeoutf(...).AddCause(ctx.Err())
SelectCtxDone ==
    /\ callerPc = "select"
    /\ ctxErr # "nil"
    /\ ret' = Return(Nil, Timeoutf(ctxErr))
    /\ callerPc' = "returned"
    /\ returns' = returns + 1
    /\ bgAtReturn' = bgPc
    /\ UNCHANGED <<client, nodeSide, elsewhere, checkTxOnly, ctxErr, bgPc, res, err>>

\* mutant: the context is looked at again after the goroutine has finished
InterpretResult_RecheckCtx ==
    /\ callerPc = "interpret"
    /\ ret' = IF ctxErr # "nil" THEN Return(Nil, Timeoutf(ctxErr))
              ELSE Interpret(res, err, checkTxOnly)
    /\ callerPc' = "returned"
    /\ returns' = returns + 1
    /\ bgAtReturn' = bgPc
    /\ UNCHANGED <<client, nodeSide, elsewhere, checkTxOnly, ctxErr, bgPc, res, err>>

\* the code after the select, up to its return
InterpretResult ==
    /\ callerPc = "interpret"
    /\ ret' = Interpret(res, err, checkTxOnly)
    /\ callerPc' = "returned"
    /\ returns' = returns + 1
    /\ bgAtReturn' = bgPc
    /\ UNCHANGED <<client, nodeSide, elsewhere, checkTxOnly, ctxErr, bgPc, res, err>>

Next ==
    \/ CtxDone
    \/ GoFunc
    \/ SignBuildBroadcast
    \/ SelectFinishChan
    \/ SelectCtxDone
    \/ InterpretResult

Spec == Init /\ [][Next]_vars

\* the Go scheduler runs every runnable goroutine; nothing obliges the node to
\* answer or the context to be cancelled
LiveSpec ==
    /\ Spec
    /\ WF_vars(GoFunc)
    /\ WF_vars(SelectFinishChan)
    /\ WF_vars(SelectCtxDone)
    /\ WF_vars(InterpretResult)

TypeOK ==
    /\ checkTxOnly \in BOOLEAN
    /\ ctxErr \in CtxErrs \cup {"nil"}
    /\ callerPc \in {"start", "select", "interpret", "returned"}
    /\ bgPc \in {"idle", "running", "sending", "done"}
    /\ returns \in 0..1
    /\ sbbCalls \in 0..1
    /\ submitted \in 0..1

(* ------------------------- vocabulary of the claims -------------------- *)
Returned == callerPc = "returned"
IsTimeout(r) == r.err # Nil /\ r.err.kind = "Timeout"
\* the call returned through the code after the select (the completion case)
Interpreted == Returned /\ bgAtReturn = "done"
\* outcome names of the broadcast state machine
Outcome(r) ==
    IF r.err = Nil THEN "Committed"
    ELSE CASE r.err.kind = "Timeout" -> "Timeout"
           [] r.err.kind = "InvalidSequenceNumber" -> "SequenceConflict"
           [] r.err.kind = "CheckTxFail" -> "MempoolRejected"
           [] r.err.kind = "DeliverTxFail" -> "ExecutionRejected"
           [] OTHER -> "BroadcastFailure"
\* the goroutine's step produced a response the node accepted and executed
Succeeded ==
    /\ err = "nil"
    /\ res # Nil
    /\ IF checkTxOnly
       THEN res.shape = "ResultBroadcastTx" /\ res.Code = 0
       ELSE /\ res.shape = "ResultBroadcastTxCommit"
            /\ res.CheckTx.Code = 0
            /\ res.DeliverTx.Code = 0

(* -------------------------------- claims ------------------------------- *)

\* C1: when the caller's select runs with ctx.Done() fired and the background
\* step not yet completed, the call returns (nil, Timeout wrapping ctx.Err()),
\* and once Timeout has been returned the call's result never changes, whatever
\* the background step produces afterwards.
C1_CancelBeforeCompletionIsTimeout ==
    [][ /\ (callerPc = "select" /\ ctxErr # "nil" /\ bgPc = "running"
              /\ callerPc' # "select")
           => (callerPc' = "returned" /\ ret' = Return(Nil, Timeoutf(ctxErr)))
        /\ (Returned /\ IsTimeout(ret))
           => (callerPc' = "returned" /\ ret' = ret /\ returns' = returns) ]_vars

\* C1 witness: Timeout was returned while the step was running, and the step
\* has since succeeded
C1_Witness ==
    /\ Returned
    /\ ret = Return(Nil, Timeoutf(ctxErr))
    /\ bgAtReturn = "running"
    /\ bgPc = "sending"
    /\ Succeeded

\* C2 as stated: whenever the cancellation signal has fired before the call
\* returns, the outcome is Timeout.
C2_Original == (Returned /\ ctxErr # "nil") => IsTimeout(ret)

\* C2 amended: with the signal fired before the return, the outcome is Timeout
\* when the select took the cancellation case, and the classified pipeline
\* result, never Timeout, when the select took the completion case.
C2_CancelledOutcome ==
    (Returned /\ ctxErr # "nil") =>
        IF bgAtReturn = "done"
        THEN ~IsTimeout(ret) /\ ret = Interpret(res, err, checkTxOnly)
        ELSE ret = Return(Nil, Timeoutf(ctxErr))

\* C2 witness: the signal had fired, the step had finished too, and the call
\* returned Committed
C2_Witness ==
    /\ Returned
    /\ ctxErr # "nil"
    /\ bgAtReturn = "done"
    /\ Outcome(ret) = "Committed"

\* C3: a call returns exactly once; its outcome is either the Timeout of the
\* cancellation case or the classified pipeline result; and when the signal
\* never fired during the call it is the classified pipeline result and not
\* Timeout.
C3_OneDeterminant ==
    /\ returns = (IF Returned THEN 1 ELSE 0)
    /\ Returned =>
         /\ IsTimeout(ret) <=> bgAtReturn # "done"
         /\ IsTimeout(ret) => ctxErr # "nil"
         /\ ctxErr = "nil" =>
              /\ bgPc = "done"
              /\ Outcome(ret) \in {"Committed", "SequenceConflict", "MempoolRejected",
                                   "ExecutionRejected", "BroadcastFailure"}
              /\ (Outcome(ret) = "Committed") <=> Succeeded

\* C3 witness: a call that returned a rejection with the signal never fired
C3_Witness ==
    /\ Returned
    /\ ctxErr = "nil"
    /\ returns = 1
    /\ Outcome(ret) = "MempoolRejected"

\* C4: once the cancellation signal has fired the call eventually returns, and
\* once the network step has completed the call eventually returns.
C4_CallerNotBlocked ==
    /\ (ctxErr # "nil") ~> Returned
    /\ (bgPc = "sending") ~> Returned

\* C4 witness: the call has returned on cancellation with the network step
\* still not completed
C4_Witness ==
    /\ Returned
    /\ ctxErr # "nil"
    /\ bgPc = "running"

\* C5: when cancellation wins, the abandoned background task, once its network
\* step has returned, runs to its end and terminates.
C5_AbandonedTaskTerminates ==
    (Returned /\ IsTimeout(ret) /\ bgPc = "sending") ~> (bgPc = "done")

(* ------------------ vocabulary of the classification claims ------------ *)
UpperHexTable ==
    <<"0", "1", "2", "3", "4", "5", "6", "7",
      "8", "9", "A", "B", "C", "D", "E", "F">>
\* a byte string as uppercase hex, digit by digit
UpperHex(h) ==
    [i \in 1..(2 * Len(h)) |->
        IF i % 2 = 1 THEN UpperHexTable[(h[(i + 1) \div 2] \div 16) + 1]
        ELSE UpperHexTable[(h[i \div 2] % 16) + 1]]
LowByte(c) == c % 256
\* the call went through the classification with the response its mode expects
FullCommitResponse ==
    /\ Interpreted /\ ~checkTxOnly /\ err = "nil"
    /\ res # Nil /\ res.shape = "ResultBroadcastTxCommit"
ConfirmOnlyResponse ==
    /\ Interpreted /\ checkTxOnly /\ err = "nil"
    /\ res # Nil /\ res.shape = "ResultBroadcastTx"
Rejection(kind, code, log) == [resp |-> Nil, err |-> [kind |-> kind, code |-> code, log |-> log]]
Committed(hash) == [resp |-> [CommitHash |-> UpperHex(hash)], err |-> Nil]

\* C6: in full-commit mode, a response returned without error is classified
\* in the order SequenceConflict (pending-pool code's low byte = 154),
\* MempoolRejected (pending-pool code # 0), ExecutionRejected (execution
\* code # 0), Committed with the hash as uppercase hex.
C6_FullCommitOrder ==
    FullCommitResponse =>
        ret = IF LowByte(res.CheckTx.Code) = 154
              THEN Rejection("InvalidSequenceNumber", res.CheckTx.Code, res.CheckTx.Log)
              ELSE IF res.CheckTx.Code # 0
              THEN Rejection("CheckTxFail", res.CheckTx.Code, res.CheckTx.Log)
              ELSE IF res.DeliverTx.Code # 0
              THEN Rejection("DeliverTxFail", res.DeliverTx.Code, res.DeliverTx.Log)
              ELSE Committed(res.Hash)

\* C6 witness: pending-pool code 0, execution code 3, ExecutionRejected with
\* code 3
C6_Witness ==
    /\ FullCommitResponse
    /\ res.CheckTx.Code = 0
    /\ res.DeliverTx.Code = 3
    /\ Outcome(ret) = "ExecutionRejected"
    /\ ret.err.code = 3

\* C7: in confirm-only mode only the pending-pool code decides:
\* SequenceConflict, else MempoolRejected, else Committed with the hash as
\* uppercase hex; a confirm-only call never yields ExecutionRejected,
\* whatever came back.
C7_ConfirmOnly ==
    /\ ConfirmOnlyResponse =>
         ret = IF LowByte(res.Code) = 154
               THEN Rejection("InvalidSequenceNumber", res.Code, res.Log)
               ELSE IF res.Code # 0
               THEN Rejection("CheckTxFail", res.Code, res.Log)
               ELSE Committed(res.Hash)
    /\ (Returned /\ checkTxOnly) => Outcome(ret) # "ExecutionRejected"

\* C7 witness: pending-pool code 0 and hash 0xAB12 give Committed with "AB12"
C7_Witness ==
    /\ ConfirmOnlyResponse
    /\ res.Code = 0
    /\ res.Hash = <<171, 18>>
    /\ ret = Return(BroadcastResponse(<<"A", "B", "1", "2">>), Nil)

\* C8: in both modes a pending-pool code with low byte 154 is classified
\* SequenceConflict whatever its higher bits, and a pending-pool code with
\* another low byte never is.
C8_PendingCodeMasking ==
    /\ FullCommitResponse =>
         ((LowByte(res.CheckTx.Code) = 154) <=> (Outcome(ret) = "SequenceConflict"))
    /\ ConfirmOnlyResponse =>
         ((LowByte(res.Code) = 154) <=> (Outcome(ret) = "SequenceConflict"))

\* C8 witness: a pending-pool code with higher bits set (256 + 154) classified
\* SequenceConflict in confirm-only mode
C8_Witness ==
    /\ ConfirmOnlyResponse
    /\ res.Code = 256 + 154
    /\ Outcome(ret) = "SequenceConflict"

\* C9 as stated: in full-commit mode, pending-pool code 0 and an execution
\* code with low byte 154 give SequenceConflict.
C9_Original ==
    (FullCommitResponse /\ res.CheckTx.Code = 0 /\ LowByte(res.DeliverTx.Code) = 154)
        => Outcome(ret) = "SequenceConflict"

\* C9 amended: in full-commit mode, pending-pool code 0 and an execution code
\* with low byte 154 give ExecutionRejected carrying that execution code and
\* log; the masking is applied to the pending-pool code only.
C9_ExecutionCodeNotMasked ==
    (FullCommitResponse /\ res.CheckTx.Code = 0 /\ LowByte(res.DeliverTx.Code) = 154)
        => ret = Rejection("DeliverTxFail", res.DeliverTx.Code, res.DeliverTx.Log)

\* C9 witness: execution code 256 + 154 after pending-pool code 0, classified
\* ExecutionRejected
C9_Witness ==
    /\ FullCommitResponse
    /\ res.CheckTx.Code = 0
    /\ res.DeliverTx.Code = 256 + 154
    /\ Outcome(ret) = "ExecutionRejected"

\* C10: every classified rejection carries the exact, unmasked remote code
\* that caused it and the log of the same response part: pending-pool code
\* and log for SequenceConflict and MempoolRejected, execution code and log
\* for ExecutionRejected.
C10_RejectionCarriesCodeAndLog ==
    (Returned /\ Outcome(ret) \in {"SequenceConflict", "MempoolRejected", "ExecutionRejected"})
      => /\ res # Nil
         /\ res.shape = (IF checkTxOnly THEN "ResultBroadcastTx" ELSE "ResultBroadcastTxCommit")
         /\ LET part == IF checkTxOnly THEN [Code |-> res.Code, Log |-> res.Log]
                        ELSE IF Outcome(ret) = "ExecutionRejected" THEN res.DeliverTx
                        ELSE res.CheckTx
            IN /\ ret.err.code = part.Code
               /\ ret.err.log = part.Log
               /\ part.Code # 0

\* C10 witness: an ExecutionRejected whose log differs from the pending-pool
\* log and whose code has higher bits set
C10_Witness ==
    /\ FullCommitResponse
    /\ Outcome(ret) = "ExecutionRejected"
    /\ res.DeliverTx.Log # res.CheckTx.Log
    /\ ret.err.code = res.DeliverTx.Code
    /\ ret.err.code > 255

\* C11: there is no internal retry: a broadcast call runs the
\* sign-build-broadcast step once, never more, and hands at most one
\* transaction to the node, whatever its outcome.
C11_NoInternalRetry ==
    /\ sbbCalls = (IF bgPc \in {"sending", "done"} THEN 1 ELSE 0)
    /\ submitted <= sbbCalls
    /\ Interpreted => sbbCalls = 1
    /\ (Interpreted /\ err = "nil") => submitted = 1

\* C11 witness: a call that returned SequenceConflict after its one submission
C11_Witness ==
    /\ Interpreted
    /\ Outcome(ret) = "SequenceConflict"
    /\ sbbCalls = 1
    /\ submitted = 1

ChainId == "test-chain-NVQwvW"
CallIds == {"call1", "call2"}
Msgs == {"TransferMsg", "FollowMsg", "UnsignableMsg", "UnwrappableMsg"}
PrivKeys == {"privA", "privB"}
Seqs == 0..MaxSeq
SmallCodes == {0, 3, 256}

\* an error value
Error(text) == [text |-> text]
Errorf(text, code, log) == [text |-> text, code |-> code, log |-> log]

\* EncodeSignMsg(msg, chainId, seq): the bytes to sign, or an error
EncodeSignMsg(msg, chainId, seq) ==
    IF msg = "UnsignableMsg"
    THEN [bytes |-> Nil, err |-> Error("sign message encoding failed")]
    ELSE [bytes |-> [msg |-> msg, chainId |-> chainId, seq |-> seq], err |-> Nil]

\* EncodeTx(msg, pubKey, sig, seq): the transaction bytes, or an error
EncodeTx(msg, pubKey, sig, seq) ==
    IF msg = "UnwrappableMsg"
    THEN [bytes |-> Nil, err |-> Error("transaction encoding failed")]
    ELSE [bytes |-> [msg |-> msg, pubKey |-> pubKey, sig |-> sig, seq |-> seq],
          err |-> Nil]

\* privKey.PubKey()
PubKey(privKey) == [pubKeyOf |-> privKey]
\* privKey.Sign(bytes)
Sign(privKey, bytes) == [signedBy |-> privKey, over |-> bytes]

\* what node.BroadcastTxCommit(tx) can return
BroadcastTxCommitAnswers ==
    {[res |-> Nil, err |-> Error("rpc failure")]}
      \cup {[res |-> r, err |-> Nil] :
              r \in [shape : {"ResultBroadcastTxCommit"},
                     CheckTx : [Code : SmallCodes, Log : {"check log"}],
                     DeliverTx : [Code : SmallCodes, Log : {"deliver log"}],
                     Hash : {<<171, 18>>}]}

\* mutant: the DeliverTx code is examined before the CheckTx code
BroadcastTx_DeliverFirst(c, answer) ==
    LET got == GetNode(c) IN
    IF got.err # "nil"
    THEN [res |-> Nil, err |-> Error(got.err), sent |-> FALSE]
    ELSE IF answer.err # Nil
    THEN [res |-> answer.res, err |-> answer.err, sent |-> TRUE]
    ELSE IF answer.res.DeliverTx.Code # 0
    THEN [res |-> answer.res,
          err |-> Errorf("DeliverTx failed", answer.res.DeliverTx.Code,
                         answer.res.DeliverTx.Log),
          sent |-> TRUE]
    ELSE IF answer.res.CheckTx.Code # 0
    THEN [res |-> answer.res,
          err |-> Errorf("CheckTx failed", answer.res.CheckTx.Code,
                         answer.res.CheckTx.Log),
          sent |-> TRUE]
    ELSE [res |-> answer.res, err |-> Nil, sent |-> TRUE]

\* Transport.BroadcastTx(tx), given what the node answers if it is asked;
\* sent tells whether the transaction went to the node
BroadcastTx(c, answer) ==
    LET got == GetNode(c) IN
    IF got.err # "nil"
    THEN [res |-> Nil, err |-> Error(got.err), sent |-> FALSE]
    ELSE IF answer.err # Nil
    THEN [res |-> answer.res, err |-> answer.err, sent |-> TRUE]
    ELSE IF answer.res.CheckTx.Code # 0
    THEN [res |-> answer.res,
          err |-> Errorf("CheckTx failed", answer.res.CheckTx.Code,
                         answer.res.CheckTx.Log),
          sent |-> TRUE]
    ELSE IF answer.res.DeliverTx.Code # 0
    THEN [res |-> answer.res,
          err |-> Errorf("DeliverTx failed", answer.res.DeliverTx.Code,
                         answer.res.DeliverTx.Log),
          sent |-> TRUE]
    ELSE [res |-> answer.res, err |-> Nil, sent |-> TRUE]

\* a call of SignBuildBroadcast(msg, privKey, seq) at its first statement
SbbCall(msg, privKey, seq) ==
    [msg |-> msg, privKey |-> privKey, seq |-> seq, pc |-> "encodeSignMsg",
     signMsgBytes |-> Nil, sig |-> Nil, txBytes |-> Nil, res |-> Nil, err |-> Nil]

TransportInit ==
    /\ client \in {Nil, RpcClient}
    /\ sbb \in [CallIds -> {SbbCall(m, k, n) : m \in Msgs, k \in PrivKeys, n \in Seqs}]
    /\ nodeTxs = <<>>
    /\ BroadcastIdle
    /\ QueryIdle
    /\ PostIdle
    /\ KeyIdle

notTransport ==
    <<checkTxOnly, ctxErr, callerPc, bgPc, res, err, ret, returns, bgAtReturn,
      nodeSide, qOp, qPc, qScan, qIdx, qMap, qRequests, qRet, pOp, links, build,
      keySide>>

\* mutant: the chain id is left out of what is signed
SbbEncodeSignMsg_NoChainId(c) ==
    /\ sbb[c].pc = "encodeSignMsg"
    /\ LET enc == EncodeSignMsg(sbb[c].msg, "", sbb[c].seq) IN
       sbb' = [sbb EXCEPT ![c].signMsgBytes = enc.bytes,
                          ![c].pc = IF enc.err # Nil THEN "panicked" ELSE "sign"]
    /\ UNCHANGED <<client, nodeTxs, notTransport>>

\* signMsgBytes, err := EncodeSignMsg(msg, t.chainId, seq); panic on error
SbbEncodeSignMsg(c) ==
    /\ sbb[c].pc = "encodeSignMsg"
    /\ LET enc == EncodeSignMsg(sbb[c].msg, ChainId, sbb[c].seq) IN
       sbb' = [sbb EXCEPT ![c].signMsgBytes = enc.bytes,
                          ![c].pc = IF enc.err # Nil THEN "panicked" ELSE "sign"]
    /\ UNCHANGED <<client, nodeTxs, notTransport>>

\* sig := privKey.Sign(signMsgBytes)
SbbSign(c) ==
    /\ sbb[c].pc = "sign"
    /\ sbb' = [sbb EXCEPT ![c].sig = Sign(sbb[c].privKey, sbb[c].signMsgBytes),
                          ![c].pc = "encodeTx"]
    /\ UNCHANGED <<client, nodeTxs, notTransport>>

\* txBytes, err := EncodeTx(msg, privKey.PubKey(), sig, seq); panic on error
SbbEncodeTx(c) ==
    /\ sbb[c].pc = "encodeTx"
    /\ LET enc == EncodeTx(sbb[c].msg, PubKey(sbb[c].privKey), sbb[c].sig, sbb[c].seq) IN
       sbb' = [sbb EXCEPT ![c].txBytes = enc.bytes,
                          ![c].pc = IF enc.err # Nil THEN "panicked" ELSE "broadcastTx"]
    /\ UNCHANGED <<client, nodeTxs, notTransport>>

\* mutant: a transaction of a signer and sequence number the node already
\* has from this transport is not sent again
SbbBroadcastTx_Dedup(c) ==
    /\ sbb[c].pc = "broadcastTx"
    /\ \E answer \in BroadcastTxCommitAnswers :
          LET dup == \E i \in DOMAIN nodeTxs :
                        /\ nodeTxs[i].pubKey = sbb[c].txBytes.pubKey
                        /\ nodeTxs[i].seq = sbb[c].txBytes.seq
              out == IF dup THEN [res |-> Nil, err |-> Error("duplicate"), sent |-> FALSE]
                     ELSE BroadcastTx(client, answer) IN
          /\ sbb' = [sbb EXCEPT ![c].res = out.res, ![c].err = out.err,
                                ![c].pc = "returned"]
          /\ nodeTxs' = IF out.sent THEN Append(nodeTxs, sbb[c].txBytes) ELSE nodeTxs
    /\ UNCHANGED <<client, notTransport>>

\* return t.BroadcastTx(txBytes)
SbbBroadcastTx(c) ==
    /\ sbb[c].pc = "broadcastTx"
    /\ \E answer \in BroadcastTxCommitAnswers :
          LET out == BroadcastTx(client, answer) IN
          /\ sbb' = [sbb EXCEPT ![c].res = out.res, ![c].err = out.err,
                                ![c].pc = "returned"]
          /\ nodeTxs' = IF out.sent THEN Append(nodeTxs, sbb[c].txBytes) ELSE nodeTxs
    /\ UNCHANGED <<client, notTransport>>

TransportNext ==
    \E c \in CallIds :
        \/ SbbEncodeSignMsg(c)
        \/ SbbSign(c)
        \/ SbbEncodeTx(c)
        \/ SbbBroadcastTx(c)

TransportSpec == TransportInit /\ [][TransportNext]_vars

\* how many of the calls satisfy P
NumCalls(P(_)) == Cardinality({c \in CallIds : P(c)})
SbbSent(c) == sbb[c].pc = "returned" /\ client # Nil
SbbSigned(c) == sbb[c].pc \in {"encodeTx", "broadcastTx", "returned"}
SbbEncoded(c) == sbb[c].pc \in {"broadcastTx", "returned"}

\* C13: the sequence number a call signs and submits is its own argument,
\* whatever the other call did, and every call that reaches the broadcast on a
\* connected transport has its transaction handed to the node: two calls of
\* the same signer with the same sequence number are both signed and both
\* submitted.
C13_NoSequenceState ==
    /\ \A c \in CallIds :
          /\ SbbSigned(c) => sbb[c].sig.over.seq = sbb[c].seq
          /\ SbbEncoded(c) => sbb[c].txBytes.seq = sbb[c].seq
          /\ SbbSent(c) => \E i \in DOMAIN nodeTxs : nodeTxs[i] = sbb[c].txBytes
    /\ Len(nodeTxs) = NumCalls(SbbSent)

\* C13 witness: both calls, same signer, same message and same sequence
\* number, have returned and the node holds the two identical transactions
C13_Witness ==
    /\ \A c \in CallIds : sbb[c].pc = "returned" /\ sbb[c].seq = 1
    /\ sbb["call1"].privKey = sbb["call2"].privKey
    /\ Len(nodeTxs) = 2
    /\ nodeTxs[1] = nodeTxs[2]

\* C14: the envelope is bound to what was signed: the signature is over the
\* encoding of (message, the transport's chain id, sequence number), the
\* envelope carries that message, that sequence number and the public key of
\* the signing key, and only the transaction of a call whose signing and
\* envelope encoding have finished reaches the node.
C14_EnvelopeBoundToSignature ==
    /\ \A c \in CallIds :
          SbbEncoded(c) =>
              sbb[c].txBytes =
                  [msg |-> sbb[c].msg,
                   pubKey |-> [pubKeyOf |-> sbb[c].privKey],
                   sig |-> [signedBy |-> sbb[c].privKey,
                            over |-> [msg |-> sbb[c].msg,
                                      chainId |-> "test-chain-NVQwvW",
                                      seq |-> sbb[c].seq]],
                   seq |-> sbb[c].seq]
    /\ \A i \in DOMAIN nodeTxs :
          \E c \in CallIds : sbb[c].pc = "returned" /\ nodeTxs[i] = sbb[c].txBytes
    /\ Len(nodeTxs) <= NumCalls(SbbEncoded)

\* C14 witness: the node holds a transaction while the other call is still
\* before its signing
C14_Witness ==
    /\ Len(nodeTxs) = 1
    /\ nodeTxs[1].seq = 1
    /\ nodeTxs[1].sig.over.chainId = ChainId
    /\ \E c \in CallIds : sbb[c].pc = "sign"

(***************************************************************************)
(* Broadcast.CreatePost, CreatePostSync and UpdatePost: the message they   *)
(* build from their arguments, two calls with the same arguments.          *)
(***************************************************************************)
PostOps == {"CreatePost", "CreatePostSync", "UpdatePost"}
Builders == {"first", "second"}
LinkIds == {"id1", "id2", "id3"}
URLs == {"url1", "url2"}
\* the values of the links argument: Go maps from identifiers to URLs (the
\* nil and the empty map are both <<>>)
LinkMaps == UNION {[ids -> URLs] : ids \in SUBSET LinkIds}

\* model.IDToURLMapping{k, v}
IDToURLMapping(k, v) == [Identifier |-> k, URL |-> v]

\* the message each operation composes, and the mode it passes on
ComposeMsg(op, mLinks) ==
    IF op = "UpdatePost"
    THEN [type |-> "UpdatePostMsg", Author |-> "author", PostID |-> "postID",
          Title |-> "title", Content |-> "content", Links |-> mLinks]
    ELSE [type |-> "CreatePostMsg", Author |-> "author", PostID |-> "postID",
          Title |-> "title", Content |-> "content",
          ParentAuthor |-> "parentAuthor", ParentPostID |-> "parentPostID",
          SourceAuthor |-> "sourceAuthor", SourcePostID |-> "sourcePostID",
          Links |-> mLinks, RedistributionSplitRate |-> "rate"]

PostInit ==
    /\ pOp \in PostOps
    /\ links \in LinkMaps
    /\ build = [b \in Builders |->
                  [pc |-> "start", todo |-> {}, mLinks |-> <<>>, msg |-> Nil,
                   checkTxOnly |-> FALSE]]
    /\ client \in {Nil, RpcClient}
    /\ BroadcastIdle
    /\ TransportIdle
    /\ QueryIdle
    /\ KeyIdle

notPost ==
    <<checkTxOnly, ctxErr, callerPc, bgPc, res, err, ret, returns, bgAtReturn,
      client, nodeSide, sbb, nodeTxs, qOp, qPc, qScan, qIdx, qMap, qRequests, qRet,
      keySide>>

\* var mLinks; if links == nil || len(links) == 0 { mLinks = nil } else the loop
PostBegin(b) ==
    /\ build[b].pc = "start"
    /\ build' = [build EXCEPT
                   ![b].pc = IF DOMAIN links = {} THEN "compose" ELSE "range",
                   ![b].todo = DOMAIN links]
    /\ UNCHANGED <<pOp, links, notPost>>

\* for k, v := range links { mLinks = append(mLinks, IDToURLMapping{k, v}) }:
\* Go leaves the order in which a map is ranged over unspecified
PostRange(b) ==
    /\ build[b].pc = "range"
    /\ \E k \in build[b].todo :
          build' = [build EXCEPT
                      ![b].mLinks = Append(@, IDToURLMapping(k, links[k])),
                      ![b].todo = @ \ {k},
                      ![b].pc = IF build[b].todo = {k} THEN "compose" ELSE "range"]
    /\ UNCHANGED <<pOp, links, notPost>>

\* msg := model.CreatePostMsg{...}; return broadcast.broadcastTransaction(...)
PostCompose(b) ==
    /\ build[b].pc = "compose"
    /\ build' = [build EXCEPT
                   ![b].msg = ComposeMsg(pOp, build[b].mLinks),
                   ![b].checkTxOnly = (pOp = "CreatePostSync"),
                   ![b].pc = "broadcast"]
    /\ UNCHANGED <<pOp, links, notPost>>

PostNext == \E b \in Builders : PostBegin(b) \/ PostRange(b) \/ PostCompose(b)

PostSpec == PostInit /\ [][PostNext]_vars

\* C15: two calls of CreatePost (likewise CreatePostSync, UpdatePost) with
\* identical arguments build identical messages, the Links in the same order.
C15_MessageDeterministic ==
    (\A b \in Builders : build[b].pc = "broadcast")
        => build["first"].msg = build["second"].msg

(***************************************************************************)
(* One operation of the transport (Transport.Query, Transport.BroadcastTx) *)
(* or of the query layer (src/query/post.go, src/query/validator.go).      *)
(***************************************************************************)
TransportOps == {"Transport.Query", "Transport.BroadcastTx"}
PointGetters ==
    {"GetPostInfo", "GetPostMeta", "GetPostComment", "GetPostView",
     "GetPostDonations", "GetPostReportOrUpvote", "GetValidator", "GetAllValidators"}
RangeGetters ==
    {"GetUserAllPosts", "GetPostAllComments", "GetPostAllViews",
     "GetPostAllDonations", "GetPostAllReportOrUpvotes"}
ScanKeys == <<"k1", "k2", "k3">>

\* stored bytes: a record's JSON, bytes that are no such JSON, or nothing
ValidValue(id) == [json |-> "ok", id |-> id]
GarbageValue(id) == [json |-> "bad", id |-> id]
EmptyValue == [json |-> "empty", id |-> ""]

\* what node.ABCIQuery(path, key) can return
ABCIQueryAnswers ==
    {[err |-> Error("rpc failure"), Response |-> Nil]}
      \cup {[err |-> Nil, Response |-> [Code |-> c, Value |-> v, Log |-> "query log"]] :
              c \in SmallCodes,
              v \in {ValidValue("k1"), GarbageValue("k1"), EmptyValue}}

\* mutant: the response code is masked to its low byte before the test
Query_Masked(c, answer) ==
    LET got == GetNode(c) IN
    IF got.err # "nil" THEN [val |-> Nil, err |-> Error(got.err), asked |-> FALSE]
    ELSE IF answer.err # Nil THEN [val |-> Nil, err |-> answer.err, asked |-> TRUE]
    ELSE IF BitAnd(answer.Response.Code, 255) # 0
    THEN [val |-> Nil,
          err |-> Errorf("Query failed", answer.Response.Code, answer.Response.Log),
          asked |-> TRUE]
    ELSE [val |-> answer.Response.Value, err |-> Nil, asked |-> TRUE]

\* Transport.Query(key, storeName), given what the node answers if it is
\* asked; asked tells whether a request went to the node
Query(c, answer) ==
    LET got == GetNode(c) IN
    IF got.err # "nil" THEN [val |-> Nil, err |-> Error(got.err), asked |-> FALSE]
    ELSE IF answer.err # Nil THEN [val |-> Nil, err |-> answer.err, asked |-> TRUE]
    ELSE IF answer.Response.Code # 0
    THEN [val |-> Nil,
          err |-> Errorf("Query failed", answer.Response.Code, answer.Response.Log),
          asked |-> TRUE]
    ELSE [val |-> answer.Response.Value, err |-> Nil, asked |-> TRUE]

\* Cdc.UnmarshalJSON(bytes, ptr): the decoded record, or the decode error
UnmarshalJSON(bytes) ==
    IF bytes # Nil /\ bytes.json = "ok"
    THEN [rec |-> [decoded |-> bytes.id], err |-> Nil]
    ELSE [rec |-> Nil, err |-> [text |-> "unmarshal failed", bytes |-> bytes]]

\* new(model.T): the record a getter allocates before decoding into it
NewRecord == [decoded |-> "zero value"]

\* the point getters, given the result q of their Transport.Query
PointGetter(op, q) ==
    IF q.err # Nil THEN [val |-> Nil, err |-> q.err]
    ELSE LET dec == UnmarshalJSON(q.val) IN
         IF dec.err # Nil
         THEN [val |-> IF op = "GetAllValidators" THEN NewRecord ELSE Nil,
               err |-> dec.err]
         ELSE [val |-> dec.rec, err |-> Nil]

\* the pairs a range scan can return: at most MaxEntries of them, in key order
\* a stored key: the scan's prefix, the separator, the trailing identifier
StoredKey(id) == <<"prefix", "/", id>>
ScanEntries ==
    UNION {{[Key |-> StoredKey(ScanKeys[i]), Value |-> ValidValue(ScanKeys[i])],
            [Key |-> StoredKey(ScanKeys[i]), Value |-> GarbageValue(ScanKeys[i])]}
             : i \in DOMAIN ScanKeys}
Scans == {<<>>} \cup UNION {[1..n -> ScanEntries] : n \in 1..MaxEntries}
OrderedScans ==
    {sc \in Scans : \A i, j \in DOMAIN sc :
        i < j => \E a, b \in DOMAIN ScanKeys :
                    /\ a < b
                    /\ sc[i].Key = StoredKey(ScanKeys[a])
                    /\ sc[j].Key = StoredKey(ScanKeys[b])}

\* what the node can answer to a range scan
SubspaceAnswers ==
    {[err |-> Error("rpc failure"), kvs |-> <<>>],
     [err |-> Errorf("Query failed", 3, "query log"), kvs |-> <<>>]}
      \cup {[err |-> Nil, kvs |-> sc] : sc \in OrderedScans}

\* Transport.QuerySubspace(prefix, storeName)
QuerySubspace(c, answer) ==
    LET got == GetNode(c) IN
    IF got.err # "nil" THEN [kvs |-> <<>>, err |-> Error(got.err), asked |-> FALSE]
    ELSE [kvs |-> answer.kvs, err |-> answer.err, asked |-> TRUE]

\* the map key of a scanned pair: what of its key follows the scan's prefix
getSubstringAfterKeySeparator(key) == key[Len(key)]
\* the same for GetUserAllPosts, whose keys follow the substore prefix
getSubstringAfterSubstore(key) == key[Len(key)]

\* m[k] = v on a Go map
MapPut(m, k, v) == [x \in DOMAIN m \cup {k} |-> IF x = k THEN v ELSE m[x]]

\* a request as the node sees it, with what it answered
Request(kind, key, answer) == [kind |-> kind, key |-> key, answer |-> answer]

OpInit ==
    /\ qOp \in TransportOps \cup PointGetters \cup RangeGetters
    /\ qPc = "called"
    /\ qScan = <<>> /\ qIdx = 0 /\ qMap = <<>> /\ qRequests = <<>> /\ qRet = <<>>
    /\ client \in {Nil, RpcClient}
    /\ BroadcastIdle
    /\ TransportIdle
    /\ PostIdle
    /\ KeyIdle

notOp ==
    <<checkTxOnly, ctxErr, callerPc, bgPc, res, err, ret, returns, bgAtReturn,
      client, nodeSide, sbb, nodeTxs, pOp, links, build, keySide>>

\* a call of Transport.Query
TransportQuery ==
    /\ qOp = "Transport.Query" /\ qPc = "called"
    /\ \E answer \in ABCIQueryAnswers :
          LET out == Query(client, answer) IN
          /\ qRet' = [val |-> out.val, err |-> out.err]
          /\ qRequests' = IF out.asked
                          THEN Append(qRequests, Request("query", "key", answer))
                          ELSE qRequests
    /\ qPc' = "returned"
    /\ UNCHANGED <<qOp, qScan, qIdx, qMap, notOp>>

\* a call of Transport.BroadcastTx
TransportBroadcastTx ==
    /\ qOp = "Transport.BroadcastTx" /\ qPc = "called"
    /\ \E answer \in BroadcastTxCommitAnswers :
          LET out == BroadcastTx(client, answer) IN
          /\ qRet' = [val |-> out.res, err |-> out.err]
          /\ qRequests' = IF out.sent
                          THEN Append(qRequests, Request("broadcast", "tx", answer))
                          ELSE qRequests
    /\ qPc' = "returned"
    /\ UNCHANGED <<qOp, qScan, qIdx, qMap, notOp>>

\* a call of one of the point getters
PointGet ==
    /\ qOp \in PointGetters /\ qPc = "called"
    /\ \E answer \in ABCIQueryAnswers :
          LET q == Query(client, answer) IN
          /\ qRet' = PointGetter(qOp, q)
          /\ qRequests' = IF q.asked
                          THEN Append(qRequests, Request("query", qOp, answer))
                          ELSE qRequests
    /\ qPc' = "returned"
    /\ UNCHANGED <<qOp, qScan, qIdx, qMap, notOp>>

\* a range getter up to its loop: resKVs, err := QuerySubspace(...); the map
RangeScan ==
    /\ qOp \in RangeGetters /\ qPc = "called"
    /\ \E answer \in SubspaceAnswers :
          LET out == QuerySubspace(client, answer) IN
          /\ qRequests' = IF out.asked
                          THEN Append(qRequests, Request("subspace", qOp, answer))
                          ELSE qRequests
          /\ IF out.err # Nil
             THEN /\ qRet' = [val |-> Nil, err |-> out.err]
                  /\ qPc' = "returned"
                  /\ UNCHANGED <<qScan, qIdx>>
             ELSE /\ qScan' = out.kvs
                  /\ qIdx' = 1
                  /\ qPc' = "loop"
                  /\ qRet' = qRet
    /\ UNCHANGED <<qOp, qMap, notOp>>

\* the key of the metadata record of the post a decoded post info names
getPostMetaKey(postInfo) == [postMeta |-> postInfo.decoded]

\* mutant: an entry that fails to decode is left out and the loop goes on
RangeStep_SkipBad ==
    /\ qPc = "loop" /\ qIdx <= Len(qScan)
    /\ LET KV == qScan[qIdx]
           dec == UnmarshalJSON(KV.Value) IN
       IF dec.err # Nil
       THEN /\ qIdx' = qIdx + 1
            /\ UNCHANGED <<qPc, qMap, qRequests, qRet>>
       ELSE IF qOp = "GetUserAllPosts"
       THEN \E answer \in ABCIQueryAnswers :
               LET q == Query(client, answer)
                   pm == PointGetter("GetPostMeta", q) IN
               /\ qRequests' = IF q.asked
                               THEN Append(qRequests,
                                           Request("query", getPostMetaKey(dec.rec), answer))
                               ELSE qRequests
               /\ IF pm.err # Nil
                  THEN /\ qRet' = [val |-> Nil, err |-> pm.err]
                          /\ qPc' = "returned"
                          /\ UNCHANGED <<qIdx, qMap>>
                  ELSE /\ qMap' = MapPut(qMap, getSubstringAfterSubstore(KV.Key),
                                         [info |-> dec.rec, meta |-> pm.val])
                       /\ qIdx' = qIdx + 1
                       /\ UNCHANGED <<qPc, qRet>>
       ELSE /\ qMap' = MapPut(qMap, getSubstringAfterKeySeparator(KV.Key), dec.rec)
            /\ qIdx' = qIdx + 1
            /\ UNCHANGED <<qPc, qRequests, qRet>>
    /\ UNCHANGED <<qOp, qScan, notOp>>

\* mutant: a post whose metadata lookup fails is left out and the loop goes on
RangeStep_IgnoreMetaError ==
    /\ qPc = "loop" /\ qIdx <= Len(qScan)
    /\ LET KV == qScan[qIdx]
           dec == UnmarshalJSON(KV.Value) IN
       IF dec.err # Nil
       THEN /\ qRet' = [val |-> Nil, err |-> dec.err]
            /\ qPc' = "returned"
            /\ UNCHANGED <<qIdx, qMap, qRequests>>
       ELSE IF qOp = "GetUserAllPosts"
       THEN \E answer \in ABCIQueryAnswers :
               LET q == Query(client, answer)
                   pm == PointGetter("GetPostMeta", q) IN
               /\ qRequests' = IF q.asked
                               THEN Append(qRequests,
                                           Request("query", getPostMetaKey(dec.rec), answer))
                               ELSE qRequests
               /\ IF pm.err # Nil
                  THEN /\ qIdx' = qIdx + 1
                          /\ UNCHANGED <<qPc, qMap, qRet>>
                  ELSE /\ qMap' = MapPut(qMap, getSubstringAfterSubstore(KV.Key),
                                         [info |-> dec.rec, meta |-> pm.val])
                       /\ qIdx' = qIdx + 1
                       /\ UNCHANGED <<qPc, qRet>>
       ELSE /\ qMap' = MapPut(qMap, getSubstringAfterKeySeparator(KV.Key), dec.rec)
            /\ qIdx' = qIdx + 1
            /\ UNCHANGED <<qPc, qRequests, qRet>>
    /\ UNCHANGED <<qOp, qScan, notOp>>

\* one round of a range getter's loop over resKVs: decode the value, for
\* GetUserAllPosts look its metadata up with GetPostMeta, put the record in
\* the map; any failure returns (nil, err)
RangeStep ==
    /\ qPc = "loop" /\ qIdx <= Len(qScan)
    /\ LET KV == qScan[qIdx]
           dec == UnmarshalJSON(KV.Value) IN
       IF dec.err # Nil
       THEN /\ qRet' = [val |-> Nil, err |-> dec.err]
            /\ qPc' = "returned"
            /\ UNCHANGED <<qIdx, qMap, qRequests>>
       ELSE IF qOp = "GetUserAllPosts"
       THEN \E answer \in ABCIQueryAnswers :
               LET q == Query(client, answer)
                   pm == PointGetter("GetPostMeta", q) IN
               /\ qRequests' = IF q.asked
                               THEN Append(qRequests,
                                           Request("query", getPostMetaKey(dec.rec), answer))
                               ELSE qRequests
               /\ IF pm.err # Nil
                  THEN /\ qRet' = [val |-> Nil, err |-> pm.err]
                          /\ qPc' = "returned"
                          /\ UNCHANGED <<qIdx, qMap>>
                  ELSE /\ qMap' = MapPut(qMap, getSubstringAfterSubstore(KV.Key),
                                         [info |-> dec.rec, meta |-> pm.val])
                       /\ qIdx' = qIdx + 1
                       /\ UNCHANGED <<qPc, qRet>>
       ELSE /\ qMap' = MapPut(qMap, getSubstringAfterKeySeparator(KV.Key), dec.rec)
            /\ qIdx' = qIdx + 1
            /\ UNCHANGED <<qPc, qRequests, qRet>>
    /\ UNCHANGED <<qOp, qScan, notOp>>

\* the loop is over: return the map
RangeReturn ==
    /\ qPc = "loop" /\ qIdx > Len(qScan)
    /\ qRet' = [val |-> qMap, err |-> Nil]
    /\ qPc' = "returned"
    /\ UNCHANGED <<qOp, qScan, qIdx, qMap, qRequests, notOp>>

OpNext ==
    \/ TransportQuery
    \/ TransportBroadcastTx
    \/ PointGet
    \/ RangeScan
    \/ RangeStep
    \/ RangeReturn

OpSpec == OpInit /\ [][OpNext]_vars

(* ---------------- vocabulary of the transport and query claims --------- *)
OpReturned == qPc = "returned"
\* the node answered a point query with code 0 and a value that decodes
AnswerOK(a) == a.err = Nil /\ a.Response.Code = 0 /\ a.Response.Value.json = "ok"
\* the error a point query's answer leads to, when it is no AnswerOK
AnswerError(a) ==
    IF a.err # Nil THEN a.err
    ELSE IF a.Response.Code # 0
    THEN [text |-> "Query failed", code |-> a.Response.Code, log |-> a.Response.Log]
    ELSE [text |-> "unmarshal failed", bytes |-> a.Response.Value]
\* a range getter has returned after its scan succeeded
RangeDone ==
    /\ qOp \in RangeGetters /\ OpReturned
    /\ qRequests # <<>> /\ qRequests[1].answer.err = Nil
BadEntries == {i \in DOMAIN qScan : qScan[i].Value.json # "ok"}
FirstBad == CHOOSE i \in BadEntries : \A j \in BadEntries : i <= j
\* the metadata lookups of GetUserAllPosts, in the order the node saw them
MetaLookups == SubSeq(qRequests, 2, Len(qRequests))

\* C16: Transport.Query returns the node's value with no error exactly when
\* the node call succeeds with response code 0, the empty value included; a
\* non-zero code, compared unmasked, gives an error with that code and log
\* and no value.
C16_QueryCodeIsTheVerdict ==
    (qOp = "Transport.Query" /\ OpReturned /\ client # Nil) =>
        LET a == qRequests[1].answer IN
        /\ (qRet.err = Nil) <=> (a.err = Nil /\ a.Response.Code = 0)
        /\ qRet.err = Nil => qRet.val = a.Response.Value
        /\ (a.err = Nil /\ a.Response.Code # 0) =>
              /\ qRet.val = Nil
              /\ qRet.err = [text |-> "Query failed", code |-> a.Response.Code,
                             log |-> a.Response.Log]

\* C16 witness: response code 256, whose low byte is 0, reported as an error
\* carrying 256
C16_Witness ==
    /\ qOp = "Transport.Query" /\ OpReturned
    /\ qRequests # <<>>
    /\ qRequests[1].answer.err = Nil
    /\ qRequests[1].answer.Response.Code = 256
    /\ qRet.err # Nil
    /\ qRet.err.code = 256

\* C17: on a transport with no client, Transport.Query and
\* Transport.BroadcastTx return the not-connected error, and no request
\* reaches a node.
C17_NotConnectedBeforeIO ==
    (qOp \in TransportOps /\ OpReturned /\ client = Nil) =>
        /\ qRet = [val |-> Nil, err |-> [text |-> "Must define node URI"]]
        /\ qRequests = <<>>

\* C17 witness: BroadcastTx returned on a transport with no client
C17_Witness ==
    /\ qOp = "Transport.BroadcastTx" /\ OpReturned
    /\ client = Nil
    /\ qRet.err # Nil
    /\ qRequests = <<>>

\* C18 as stated: whenever a scanned entry fails to decode, the range getter
\* returns no map and the decode error of such an entry.
C18_Original ==
    (RangeDone /\ BadEntries # {}) =>
        /\ qRet.val = Nil
        /\ \E i \in BadEntries :
              qRet.err = [text |-> "unmarshal failed", bytes |-> qScan[i].Value]

\* C18: a range getter returns a map only when every scanned entry decoded;
\* if an entry fails to decode it returns no map and an error, which is that
\* entry's decode error (the first such entry's, unless for GetUserAllPosts a
\* metadata lookup of an earlier entry had already failed the call).
C18_RangeFailFast ==
    RangeDone =>
        /\ qRet.val # Nil =>
              /\ BadEntries = {}
              /\ qRet.err = Nil
              /\ DOMAIN qRet.val = {qScan[i].Key[3] : i \in DOMAIN qScan}
        /\ BadEntries # {} =>
              /\ qRet.val = Nil
              /\ qRet.err # Nil
              /\ (qOp # "GetUserAllPosts"
                    \/ \A j \in DOMAIN MetaLookups : AnswerOK(MetaLookups[j].answer))
                 => qRet.err = [text |-> "unmarshal failed",
                                bytes |-> qScan[FirstBad].Value]

\* C18 witness: GetPostAllViews, the first entry decoded and the second did
\* not: no map, the second entry's decode error
C18_Witness ==
    /\ RangeDone /\ qOp = "GetPostAllViews"
    /\ Len(qScan) = 2
    /\ qScan[1].Value.json = "ok"
    /\ qScan[2].Value.json = "bad"
    /\ qRet.val = Nil
    /\ qRet.err.bytes = qScan[2].Value

\* C19: GetUserAllPosts looks the metadata up once per scanned entry, in scan
\* order, stops at the first lookup that fails, returning that error and no
\* map, and returns a map only when every lookup succeeded.
C19_SecondaryLookups ==
    (RangeDone /\ qOp = "GetUserAllPosts") =>
        /\ Len(MetaLookups) <= Len(qScan)
        /\ \A j \in DOMAIN MetaLookups :
              /\ MetaLookups[j].kind = "query"
              /\ MetaLookups[j].key = [postMeta |-> qScan[j].Value.id]
              /\ j < Len(MetaLookups) => AnswerOK(MetaLookups[j].answer)
        /\ qRet.val # Nil =>
              /\ Len(MetaLookups) = Len(qScan)
              /\ \A j \in DOMAIN MetaLookups : AnswerOK(MetaLookups[j].answer)
        /\ (MetaLookups # <<>> /\ ~AnswerOK(MetaLookups[Len(MetaLookups)].answer)) =>
              /\ qRet.val = Nil
              /\ qRet.err = AnswerError(MetaLookups[Len(MetaLookups)].answer)

\* C19 witness: two entries that decode, the first one's metadata lookup
\* rejected by the node: no map, and no lookup for the second
C19_Witness ==
    /\ RangeDone /\ qOp = "GetUserAllPosts"
    /\ Len(qScan) = 2
    /\ BadEntries = {}
    /\ Len(MetaLookups) = 1
    /\ MetaLookups[1].answer.err = Nil
    /\ MetaLookups[1].answer.Response.Code = 3
    /\ qRet.val = Nil

\* C20: a point getter whose query fails or whose bytes fail to decode
\* returns the error and no record.
C20_PointNoPartialResult ==
    (qOp \in PointGetters /\ OpReturned /\ qRet.err # Nil) => qRet.val = Nil

\* C25: a Timeout outcome does not mean the transaction was not submitted:
\* whenever the call returns Timeout the goroutine had been started, also
\* when the context was done at call time, and it is left to run its step.
C25_TimeoutAfterStart ==
    (Returned /\ IsTimeout(ret)) =>
        /\ bgAtReturn \in {"running", "sending"}
        /\ bgPc \in {"running", "sending"}
        /\ bgPc = "sending" => sbbCalls = 1

\* C25 witness: the caller got Timeout while the step was still running, and
\* the node then received and committed the transaction
C25_Witness ==
    /\ Returned /\ IsTimeout(ret)
    /\ bgAtReturn = "running"
    /\ bgPc = "sending"
    /\ submitted = 1
    /\ ~checkTxOnly
    /\ Succeeded

\* C24: on a connected transport, Transport.BroadcastTx returns an error
\* exactly when the node call fails or the CheckTx or the DeliverTx code is
\* non-zero; the CheckTx code is examined first; on a rejection the node's
\* result comes back with the error; a nil error means both codes are 0.
C24_BroadcastTxVerdict ==
    (qOp = "Transport.BroadcastTx" /\ OpReturned /\ client # Nil) =>
        LET a == qRequests[1].answer IN
        IF a.err # Nil
        THEN qRet.err = a.err
        ELSE /\ qRet.val = a.res
             /\ (qRet.err = Nil) <=>
                   (a.res.CheckTx.Code = 0 /\ a.res.DeliverTx.Code = 0)
             /\ a.res.CheckTx.Code # 0 =>
                   qRet.err = [text |-> "CheckTx failed",
                               code |-> a.res.CheckTx.Code,
                               log |-> a.res.CheckTx.Log]
             /\ (a.res.CheckTx.Code = 0 /\ a.res.DeliverTx.Code # 0) =>
                   qRet.err = [text |-> "DeliverTx failed",
                               code |-> a.res.DeliverTx.Code,
                               log |-> a.res.DeliverTx.Log]

\* C24 witness: both codes non-zero, the CheckTx one with low byte 0; the
\* error reports the CheckTx code and the node's result is returned with it
C24_Witness ==
    /\ qOp = "Transport.BroadcastTx" /\ OpReturned
    /\ qRequests # <<>>
    /\ qRequests[1].answer.err = Nil
    /\ qRequests[1].answer.res.CheckTx.Code = 256
    /\ qRequests[1].answer.res.DeliverTx.Code = 3
    /\ qRet.err # Nil
    /\ qRet.err.code = 256
    /\ qRet.val = qRequests[1].answer.res

\* a call of SignBuildBroadcast whose message one of the two encoders rejects
SbbEncodeFails(c) ==
    \/ EncodeSignMsg(sbb[c].msg, ChainId, sbb[c].seq).err # Nil
    \/ EncodeTx(sbb[c].msg, PubKey(sbb[c].privKey), sbb[c].sig, sbb[c].seq).err # Nil
\* the call is over, one way or the other
SbbOver(c) == sbb[c].pc \in {"returned", "panicked"}

\* C23: when encoding the signable payload or the envelope fails inside
\* SignBuildBroadcast, the call returns normally with an error value, and
\* nothing is broadcast.
C23_EncodeFailureReturned ==
    \A c \in CallIds :
        (SbbOver(c) /\ SbbEncodeFails(c)) =>
            /\ sbb[c].pc = "returned"
            /\ sbb[c].err # Nil
            /\ \A i \in DOMAIN nodeTxs : nodeTxs[i].msg # sbb[c].msg

\* C22: a broadcast call whose private key hex cannot be parsed fails with an
\* error of a class other than the one a transport or broadcast failure
\* gives, and nothing is submitted to the node.
C22_KeyDecodeDistinguishable ==
    (Interpreted /\ GetPrivKeyFromHex(privKeyHex).err # Nil) =>
        /\ ret.err # Nil
        /\ \A e \in {"broadcast error", "Must define node URI"} :
              ret.err.kind # Interpret(Nil, e, checkTxOnly).err.kind
        /\ submitted = 0

(***************************************************************************)
(* The operations that take public keys as hex strings: Register, Recover, *)
(* ValidatorDeposit, RevokePermission.  Each parses its keys, composes its *)
(* message and calls broadcastTransaction in full-commit mode.             *)
(***************************************************************************)
KeyOps == {"Register", "Recover", "ValidatorDeposit", "RevokePermission"}
\* how many public keys the operation takes
KeyArity(op) == IF op \in {"Register", "Recover"} THEN 3 ELSE 1

\* the message of the error for the operation's i-th key
KeyErrMsg(op, i) ==
    CASE op = "Register" /\ i = 1 -> "Register: failed to get Reset pub key"
      [] op = "Register" /\ i = 2 -> "Register: failed to get Tx pub key"
      [] op = "Register" /\ i = 3 -> "Register: failed to get App pub key"
      [] op = "Recover" /\ i = 1 -> "Recover: failed to get Reset pub key"
      [] op = "Recover" /\ i = 2 -> "Recover: failed to get Tx pub key"
      [] op = "Recover" /\ i = 3 -> "Recover: failed to get App pub key"
      [] op = "ValidatorDeposit" -> "ValidatorDeposit: failed to get Val pub key"
      [] op = "RevokePermission" -> "Register: failed to get pub key"

\* errors.FailedToGetPubKeyFromHex(msg).AddCause(err)
FailedToGetPubKeyFromHex(msg, cause) ==
    [kind |-> "FailedToGetPubKeyFromHex", msg |-> msg, cause |-> cause]

\* mutant: every key is parsed and the last failure is the one reported
ParsePubKeys_LastBad(op, keys) ==
    LET bad == {i \in DOMAIN keys : GetPubKeyFromHex(keys[i]).err # Nil} IN
    IF bad = {}
    THEN [keys |-> [i \in DOMAIN keys |-> GetPubKeyFromHex(keys[i]).key], err |-> Nil]
    ELSE LET i == CHOOSE j \in bad : \A k \in bad : k <= j IN
         [keys |-> Nil,
          err |-> FailedToGetPubKeyFromHex(KeyErrMsg(op, i), GetPubKeyFromHex(keys[i]).err)]

\* the operation's parse statements, one key after the other, each followed
\* by its return on error
ParsePubKeys(op, keys) ==
    LET bad == {i \in DOMAIN keys : GetPubKeyFromHex(keys[i]).err # Nil} IN
    IF bad = {}
    THEN [keys |-> [i \in DOMAIN keys |-> GetPubKeyFromHex(keys[i]).key], err |-> Nil]
    ELSE LET i == CHOOSE j \in bad : \A k \in bad : j <= k IN
         [keys |-> Nil,
          err |-> FailedToGetPubKeyFromHex(KeyErrMsg(op, i), GetPubKeyFromHex(keys[i]).err)]

KeyInit ==
    /\ kOp \in KeyOps
    /\ kKeys \in UNION {[1..KeyArity(op) -> KeyHexes] : op \in KeyOps}
    /\ Len(kKeys) = KeyArity(kOp)
    /\ kPc = "called"
    /\ kRet = <<>>
    /\ client \in {Nil, RpcClient}
    /\ BroadcastIdle
    /\ TransportIdle
    /\ QueryIdle
    /\ PostIdle

notKey ==
    <<privKeyHex, kOp, kKeys, checkTxOnly, ctxErr, callerPc, bgPc, res, err, ret,
      returns, bgAtReturn, client, nodeSide, sbb, nodeTxs, qOp, qPc, qScan, qIdx,
      qMap, qRequests, qRet, pOp, links, build>>

\* the operation up to its call of broadcastTransaction: a key that does not
\* parse is its return
KeyCall ==
    /\ kPc = "called"
    /\ LET parsed == ParsePubKeys(kOp, kKeys) IN
       IF parsed.err # Nil
       THEN kRet' = Return(Nil, parsed.err) /\ kPc' = "returned"
       ELSE kRet' = kRet /\ kPc' = "broadcasting"
    /\ UNCHANGED notKey

\* broadcastTransaction is under way, or has returned and left its goroutine
KeyStarted ==
    \/ kPc = "broadcasting"
    \/ kPc = "returned" /\ callerPc = "returned"

\* return broadcast.broadcastTransaction(ctx, msg, privKeyHex, seq, "", false)
KeyReturn ==
    /\ kPc = "broadcasting"
    /\ callerPc = "returned"
    /\ kRet' = ret
    /\ kPc' = "returned"
    /\ UNCHANGED notKey

KeyNext ==
    \/ KeyCall
    \/ KeyStarted /\ CtxDone
    \/ KeyStarted /\ GoFunc
    \/ KeyStarted /\ SignBuildBroadcast
    \/ KeyStarted /\ SelectFinishChan
    \/ KeyStarted /\ SelectCtxDone
    \/ KeyStarted /\ InterpretResult
    \/ KeyReturn

KeySpec == KeyInit /\ [][KeyNext]_vars

\* the keys of the call that do not parse
BadKeys == {i \in DOMAIN kKeys : GetPubKeyFromHex(kKeys[i]).err # Nil}

\* C21: Register, Recover, ValidatorDeposit and RevokePermission, given a
\* public key hex that does not parse, return a key-decode error with the
\* parse error as its cause, for the first bad key in the order reset,
\* transaction, app; the broadcast pipeline is never started: nothing is
\* signed and nothing is submitted.
C21_PubKeyDecodeError ==
    BadKeys # {} =>
        /\ callerPc = "start" /\ bgPc = "idle"
        /\ sbbCalls = 0 /\ submitted = 0
        /\ kPc = "returned" =>
              /\ kRet.resp = Nil
              /\ kRet.err.kind = "FailedToGetPubKeyFromHex"
              /\ \E i \in BadKeys :
                    /\ \A j \in BadKeys : i <= j
                    /\ kRet.err.msg = KeyErrMsg(kOp, i)
                    /\ kRet.err.cause = GetPubKeyFromHex(kKeys[i]).err

\* C21 witness: Register with a good reset key and two bad keys of different
\* kinds has returned the error of the transaction key
C21_Witness ==
    /\ kOp = "Register" /\ kPc = "returned"
    /\ BadKeys = {2, 3}
    /\ kKeys[2] = <<"g", "1">>
    /\ kKeys[3] = <<"0">>
    /\ kRet.err.msg = "Register: failed to get Tx pub key"
    /\ kRet.err.cause = [text |-> "encoding/hex: invalid byte", byte |-> "g"]
    /\ submitted = 0

====
